---- MODULE Spec2Model ----
(***************************************************************************)
(* Cage (Wayland kiosk): the primary-client supervisor of cage.c.          *)
(*                                                                         *)
(* The model follows main() from parse_args to its return, the child made  *)
(* by fork() in spawn_primary_client, the two callbacks the event loop     *)
(* dispatches (sigchld_handler, handle_signal) and the operator's SIGINT / *)
(* SIGTERM.  The kernel calls the code relies on (setuid/setgid, pipe,     *)
(* fork, waitpid, close) and the libwayland event loop are modelled by the *)
(* behaviour the code sees from them.                                      *)
(***************************************************************************)
EXTENDS Integers, Sequences, FiniteSets, TLC

(***************************************************************************)
(* Bounds of the model.                                                    *)
(***************************************************************************)
\* user and group ids range over 0..MaxId (0 is root)
MaxId == 1
\* the client's normal exit statuses are 0..MaxExitStatus and 255
MaxExitStatus == 1
\* the client dies from a signal of 1..MaxChildSig or from SIGTERM
MaxChildSig == 1

(***************************************************************************)
(* Program constants.                                                      *)
(***************************************************************************)
SIGINT == 2
SIGTERM == 15
\* the pid fork() returns in the parent (any value > 0)
ChildPid == 1

Ids == 0 .. MaxId
ExitStatuses == (0 .. MaxExitStatus) \cup {255}
ChildSignals == (1 .. MaxChildSig) \cup {SIGTERM}

(***************************************************************************)
(* Wait statuses, encoded as waitpid() stores them: the exit status in     *)
(* bits 8..15, the terminating signal in bits 0..6, the core flag in bit 7.*)
(***************************************************************************)
W_EXITCODE(n) == n * 256
W_SIGNALED(s, core) == s + (IF core THEN 128 ELSE 0)
WIFEXITED(status) == status % 128 = 0
WEXITSTATUS(status) == (status \div 256) % 256
WTERMSIG(status) == status % 128
WIFSIGNALED(status) == (status % 128) \notin {0, 127}

ChildStatuses ==
    {W_EXITCODE(n) : n \in ExitStatuses}
        \cup {W_SIGNALED(s, c) : s \in ChildSignals, c \in BOOLEAN}
\* what an int that waitpid() did not write may hold (127: stopped)
UninitStatuses == ChildStatuses \cup {127}

\* cleanup_primary_client mistranslating a normal exit
cleanup_primary_client_zero(status) ==
    IF WIFSIGNALED(status) THEN 128 + WTERMSIG(status) ELSE 0

\* cleanup_primary_client returning the bare signal number
cleanup_primary_client_rawsig(status) ==
    IF WIFEXITED(status) THEN WEXITSTATUS(status)
    ELSE IF WIFSIGNALED(status) THEN WTERMSIG(status)
    ELSE 0

\* cleanup_primary_client: the translation of the status waitpid() stored
cleanup_primary_client(status) ==
    IF WIFEXITED(status) THEN WEXITSTATUS(status)
    ELSE IF WIFSIGNALED(status) THEN 128 + WTERMSIG(status)
    ELSE 0

\* main's choice of exit code with the flag ignored
main_ret_always(r, flag, app) == IF r = 0 THEN app ELSE r

\* main, lines 332-334: if (!ret && server.return_app_code) ret = app_ret
main_ret(r, flag, app) == IF r = 0 /\ flag THEN app ELSE r

(***************************************************************************)
(* Process credentials and the set*id calls of drop_permissions.           *)
(***************************************************************************)
\* the credentials of a freshly exec'd process: saved ids = effective ids
StartCreds ==
    {[ruid |-> ru, euid |-> eu, suid |-> eu, rgid |-> rg, egid |-> eg, sgid |-> eg] :
        ru \in Ids, eu \in Ids, rg \in Ids, eg \in Ids}

\* setuid(2): with effective uid 0 all three uids are set; otherwise only
\* the effective uid, and only to the real or the saved uid
setuid(c, u) ==
    IF c.euid = 0
    THEN [r |-> 0, c |-> [c EXCEPT !.ruid = u, !.euid = u, !.suid = u]]
    ELSE IF u = c.ruid \/ u = c.suid
    THEN [r |-> 0, c |-> [c EXCEPT !.euid = u]]
    ELSE [r |-> -1, c |-> c]

\* setgid(2): the same rule for the gids; the privilege is effective uid 0
setgid(c, g) ==
    IF c.euid = 0
    THEN [r |-> 0, c |-> [c EXCEPT !.rgid = g, !.egid = g, !.sgid = g]]
    ELSE IF g = c.rgid \/ g = c.sgid
    THEN [r |-> 0, c |-> [c EXCEPT !.egid = g]]
    ELSE [r |-> -1, c |-> c]

\* the calls that may fail for a reason outside the credentials (EAGAIN)
DropFailures == {"none", "setgid", "setuid"}

\* lines 178-185: root must not be regainable
drop_permissions_check(c) ==
    LET g0 == setgid(c, 0)
        u0 == setuid(g0.c, 0)
    IN  IF g0.r # -1 THEN [ok |-> FALSE, c |-> g0.c, failed |-> "none"]
        ELSE IF u0.r # -1 THEN [ok |-> FALSE, c |-> u0.c, failed |-> "none"]
        ELSE [ok |-> TRUE, c |-> u0.c, failed |-> "none"]

\* drop_permissions refusing every start whose effective ids differ
drop_permissions_refuse(c, fail) ==
    IF c.ruid = 0 \/ c.rgid = 0
    THEN [ok |-> TRUE, c |-> c, failed |-> "none"]
    ELSE IF c.ruid # c.euid \/ c.rgid # c.egid
    THEN [ok |-> FALSE, c |-> c, failed |-> "none"]
    ELSE [drop_permissions_check(c) EXCEPT !.failed = "none"]

\* drop_permissions, lines 162-185; fail names the call of line 172 that
\* the kernel refuses if it is reached, failed the call that was refused
drop_permissions(c, fail) ==
    IF c.ruid = 0 \/ c.rgid = 0
    THEN [ok |-> TRUE, c |-> c, failed |-> "none"]
    ELSE IF c.ruid # c.euid \/ c.rgid # c.egid
    THEN LET g1 == IF fail = "setgid" THEN [r |-> -1, c |-> c]
                   ELSE setgid(c, c.rgid)
             u1 == IF fail = "setuid" THEN [r |-> -1, c |-> g1.c]
                   ELSE setuid(g1.c, g1.c.ruid)
         IN  IF g1.r # 0 THEN [ok |-> FALSE, c |-> g1.c, failed |-> fail]
             ELSE IF u1.r # 0 THEN [ok |-> FALSE, c |-> u1.c, failed |-> fail]
             ELSE [drop_permissions_check(u1.c) EXCEPT !.failed = "none"]
    ELSE [drop_permissions_check(c) EXCEPT !.failed = "none"]

(***************************************************************************)
(* server_init / server_term: the collaborator's resources.                *)
(***************************************************************************)
InitSteps ==
    << "display", "backend", "renderer", "allocator", "output_layout",
       "scene", "compositor", "subcompositor", "data_device",
       "primary_selection", "seat", "idle", "idle_inhibit", "xdg_shell",
       "xdg_decoration", "server_decoration", "viewporter", "presentation",
       "export_dmabuf", "screencopy", "single_pixel", "xdg_output",
       "output_manager", "gamma", "virtual_keyboard", "virtual_pointer",
       "relative_pointer", "socket", "backend_start" >>

\* the resources server_term and the err_ labels destroy
Resources == {"display", "backend", "output_layout", "seat"}

StepIndex(step) == CHOOSE i \in 1 .. Len(InitSteps) : InitSteps[i] = step

\* the label a failing step jumps to
ErrLabel(step) ==
    CASE step = "display" -> "return"
      [] step = "backend" -> "err_display"
      [] step \in {"renderer", "allocator", "output_layout"} -> "err_backend"
      [] step \in {"scene", "compositor", "subcompositor", "data_device",
                   "primary_selection", "seat", "socket"} -> "err_output"
      [] step = "backend_start" -> "return"
      [] OTHER -> "err_seat"

\* what the code from a label to the final return destroys
LabelDestroys(label) ==
    CASE label = "err_seat" -> {"seat", "output_layout", "backend", "display"}
      [] label = "err_output" -> {"output_layout", "backend", "display"}
      [] label = "err_backend" -> {"backend", "display"}
      [] label = "err_display" -> {"display"}
      [] OTHER -> {}

\* the resources created before the given step fails
CreatedBefore(step) ==
    {r \in Resources : StepIndex(r) < StepIndex(step)}

(***************************************************************************)
(* The state.                                                              *)
(***************************************************************************)
VARIABLES
    pc,               \* main's position
    ret, app_ret,     \* main's locals
    pid,              \* main's pid (0: no child recorded)
    return_app_code,  \* server.return_app_code
    run,              \* wl_display's run flag
    sigint_source, sigterm_source, sigchld_source,
                      \* "NULL", "armed" or "removed"
    pfd,              \* the parent's pipe ends: [rd, wr] in none/open/closed
    pcx,              \* FD_CLOEXEC on the parent's ends: [rd, wr]
    cpc,              \* the child's position
    cfd,              \* the child's pipe ends
    ccx,              \* FD_CLOEXEC on the child's ends
    gwr,              \* the write end in a process forked by the client
    srcfd,            \* the descriptor the death source holds (a dup)
    cstatus,          \* the child's wait status, -1 while it lives
    pendingSig,       \* signals queued on the loop's signal sources
    creds,            \* the process credentials
    created,          \* collaborator resources created
    destroyed,        \* how often each resource was destroyed
    \* history
    creds0,           \* the credentials at start
    dropFail,         \* the set*id call the kernel refused
    guard,            \* drop_permissions' answer: pending/allowed/denied
    failedAt,         \* the step that made main give up
    spawned,          \* spawn_primary_client returned true
    loopRan,          \* wl_display_run was entered
    dispatched,       \* the callbacks the loop ran, in order
    sigBeforeExit,    \* a signal callback ran while the child was alive
    reapCalls,        \* calls of cleanup_primary_client
    execResult,       \* what execvp did in the child: none/ok/failed
    rdCloses,         \* close() calls on the parent's read end
    clientsDestroyed, \* calls of wl_display_destroy_clients
    trace,            \* the steps the callbacks took, in order
    \* parse_config_file
    output_mode,      \* server.output_mode
    directives,       \* the directives scfg_load_file read
    cfg_pc,           \* parse_config_file's position, "idle" while not called
    cfg_i,            \* its loop counter: directives gone through
    cfg_ret,          \* what it returned
    handled           \* the calls of parse_multi_output it made

vars ==
    << pc, ret, app_ret, pid, return_app_code, run, sigint_source,
       sigterm_source, sigchld_source, pfd, pcx, cpc, cfd, cstatus,
       pendingSig, creds, created, destroyed, creds0, dropFail, guard,
       failedAt, spawned, loopRan, dispatched, sigBeforeExit, reapCalls,
       ccx, gwr, srcfd, execResult, rdCloses, clientsDestroyed, trace,
       output_mode, directives, cfg_pc, cfg_i, cfg_ret, handled >>

cfgVars == << output_mode, directives, cfg_pc, cfg_i, cfg_ret, handled >>

locals == << ret, app_ret, pid >>
sources == << sigint_source, sigterm_source, sigchld_source, srcfd >>
pipes == << pfd, pcx, rdCloses >>
child == << cpc, cfd, ccx, cstatus, gwr, execResult >>
credVars == << creds, creds0, dropFail, guard >>
server == << created, destroyed, clientsDestroyed, cfgVars >>
loopVars == << return_app_code, run, dispatched, sigBeforeExit, loopRan, trace >>

\* main at its first line
MainInit ==
    /\ pc = "parse_args"
    /\ ret = 0 /\ app_ret = 0 /\ pid = 0
    /\ return_app_code = FALSE
    /\ run = FALSE
    /\ sigint_source = "NULL" /\ sigterm_source = "NULL"
    /\ sigchld_source = "NULL"
    /\ pfd = [rd |-> "none", wr |-> "none"]
    /\ pcx = [rd |-> FALSE, wr |-> FALSE]
    /\ cpc = "none"
    /\ cfd = [rd |-> "none", wr |-> "none"]
    /\ cstatus = -1
    /\ pendingSig = {}
    /\ creds \in StartCreds
    /\ creds0 = creds
    /\ dropFail = "none"
    /\ guard = "pending"
    /\ created = {}
    /\ destroyed = [r \in Resources |-> 0]
    /\ failedAt = "none"
    /\ spawned = FALSE
    /\ loopRan = FALSE
    /\ dispatched = << >>
    /\ sigBeforeExit = FALSE
    /\ reapCalls = 0
    /\ ccx = [rd |-> FALSE, wr |-> FALSE]
    /\ gwr = "none"
    /\ srcfd = "none"
    /\ execResult = "none"
    /\ rdCloses = 0
    /\ clientsDestroyed = 0
    /\ trace = << >>

\* parse_config_file is not called: main has no call of it
CfgIdle ==
    /\ output_mode = "EXTEND"
    /\ directives = << >>
    /\ cfg_pc = "idle"
    /\ cfg_i = 0
    /\ cfg_ret = "none"
    /\ handled = << >>

Init == MainInit /\ CfgIdle


(***************************************************************************)
(* main, up to the spawn.                                                  *)
(***************************************************************************)
\* a return (or exit) of main before anything was set up
Return(code, why) ==
    /\ pc' = "done"
    /\ ret' = code
    /\ failedAt' = why

\* lines 270-272: parse_args fails (usage), exits (-v) or succeeds
ParseArgs ==
    /\ pc = "parse_args"
    /\ \/ Return(1, "parse_args")
       \/ Return(0, "version")
       \/ pc' = "getenv" /\ UNCHANGED << ret, failedAt >>
    /\ UNCHANGED << app_ret, pid, sources, pipes, child, pendingSig, credVars,
                    server, loopVars, spawned, reapCalls >>

\* lines 281-284: XDG_RUNTIME_DIR must be set
CheckEnv ==
    /\ pc = "getenv"
    /\ \/ Return(1, "getenv")
       \/ pc' = "drop_permissions" /\ UNCHANGED << ret, failedAt >>
    /\ UNCHANGED << app_ret, pid, sources, pipes, child, pendingSig, credVars,
                    server, loopVars, spawned, reapCalls >>

\* lines 286-288: the privilege guard
DropPermissions ==
    /\ pc = "drop_permissions"
    /\ \E fail \in DropFailures :
          LET res == drop_permissions(creds, fail)
          IN  /\ dropFail' = res.failed
              /\ creds' = res.c
              /\ IF res.ok
                 THEN /\ guard' = "allowed"
                      /\ pc' = "server_init"
                      /\ UNCHANGED << ret, failedAt >>
                 ELSE /\ guard' = "denied"
                      /\ Return(1, "guard")
    /\ UNCHANGED << app_ret, pid, sources, pipes, child, pendingSig, creds0,
                    server, loopVars, spawned, reapCalls >>

\* server_init, lines 46-290: step is the call that fails, if any
server_init(step) ==
    IF step = "none"
    THEN [ok |-> TRUE, created |-> Resources, destroys |-> {}]
    ELSE [ok |-> FALSE, created |-> CreatedBefore(step),
          destroys |-> LabelDestroys(ErrLabel(step))]

\* lines 290-292
ServerInit ==
    /\ pc = "server_init"
    /\ \E step \in {InitSteps[i] : i \in 1 .. Len(InitSteps)} \cup {"none"} :
          LET res == server_init(step)
          IN  /\ created' = res.created
              /\ destroyed' = [r \in Resources |->
                                 IF r \in res.destroys THEN destroyed[r] + 1
                                 ELSE destroyed[r]]
              /\ IF res.ok
                 THEN pc' = "add_signals" /\ UNCHANGED << ret, failedAt >>
                 ELSE Return(1, "server_init")
    /\ UNCHANGED << app_ret, pid, sources, pipes, child, pendingSig, credVars,
                    clientsDestroyed, cfgVars, loopVars, spawned, reapCalls >>

\* lines 294-302: wl_event_loop_add_signal gives a source or NULL
AddSignals ==
    /\ pc = "add_signals"
    /\ sigint_source' \in {"NULL", "armed"}
    /\ sigterm_source' \in {"NULL", "armed"}
    /\ pc' = "spawn_pipe"
    /\ UNCHANGED << locals, sigchld_source, srcfd, pipes, child, pendingSig,
                    credVars, server, loopVars, failedAt, spawned, reapCalls >>

(***************************************************************************)
(* spawn_primary_client, and main's lines 312-315 on its failure.          *)
(***************************************************************************)
\* a failed spawn taken for a success: main goes on to the loop
SpawnFailed_ignored(why) ==
    /\ ret' = ret
    /\ failedAt' = why
    /\ pc' = "display_run"

\* return false; then in main: ret = 1; goto end
SpawnFailed(why) ==
    /\ ret' = 1
    /\ failedAt' = why
    /\ pc' = "end"

\* the pipe created with O_CLOEXEC on both ends
SpawnPipe_cloexec ==
    /\ pc = "spawn_pipe"
    /\ \/ /\ pfd' = [rd |-> "open", wr |-> "open"]
          /\ pcx' = [rd |-> TRUE, wr |-> TRUE]
          /\ pc' = "spawn_fork"
          /\ UNCHANGED << ret, failedAt >>
       \/ /\ SpawnFailed("pipe")
          /\ UNCHANGED << pfd, pcx >>
    /\ UNCHANGED << app_ret, pid, sources, rdCloses, child, pendingSig,
                    credVars, server, loopVars, spawned, reapCalls >>

\* lines 103-107
SpawnPipe ==
    /\ pc = "spawn_pipe"
    /\ \/ /\ pfd' = [rd |-> "open", wr |-> "open"]
          /\ pc' = "spawn_fork"
          /\ UNCHANGED << ret, failedAt >>
       \/ /\ SpawnFailed("pipe")
          /\ UNCHANGED pfd
    /\ UNCHANGED << app_ret, pid, sources, pcx, rdCloses, child, pendingSig,
                    credVars, server, loopVars, spawned, reapCalls >>

\* fork with the pid left unrecorded
SpawnFork_nopid ==
    /\ pc = "spawn_fork"
    /\ \/ /\ cpc' = "sigmask"
          /\ cfd' = pfd
          /\ ccx' = pcx
          /\ pid' = pid
          /\ pc' = "spawn_cloexec_rd"
          /\ UNCHANGED << ret, failedAt >>
       \/ /\ SpawnFailed("fork")
          /\ UNCHANGED << cpc, cfd, ccx, pid >>
    /\ UNCHANGED << app_ret, sources, pipes, cstatus, gwr, execResult,
                    pendingSig, credVars, server, loopVars, spawned, reapCalls >>

\* lines 109-126: fork; the parent records the pid at once
SpawnFork ==
    /\ pc = "spawn_fork"
    /\ \/ /\ cpc' = "sigmask"
          /\ cfd' = pfd
          /\ ccx' = pcx
          /\ pid' = ChildPid
          /\ pc' = "spawn_cloexec_rd"
          /\ UNCHANGED << ret, failedAt >>
       \/ /\ SpawnFailed("fork")
          /\ UNCHANGED << cpc, cfd, ccx, pid >>
    /\ UNCHANGED << app_ret, sources, pipes, cstatus, gwr, execResult,
                    pendingSig, credVars, server, loopVars, spawned, reapCalls >>

\* set_cloexec, lines 81-98, on one of the parent's ends
set_cloexec(end, ok) ==
    IF ok THEN [ok |-> TRUE, cx |-> [pcx EXCEPT ![end] = TRUE]]
    ELSE [ok |-> FALSE, cx |-> pcx]

\* line 128, first operand
SpawnCloexecRead ==
    /\ pc = "spawn_cloexec_rd"
    /\ \E ok \in BOOLEAN :
          LET res == set_cloexec("rd", ok)
          IN  /\ pcx' = res.cx
              /\ IF res.ok
                 THEN pc' = "spawn_cloexec_wr" /\ UNCHANGED << ret, failedAt >>
                 ELSE SpawnFailed("cloexec")
    /\ UNCHANGED << app_ret, pid, sources, pfd, rdCloses, child, pendingSig,
                    credVars, server, loopVars, spawned, reapCalls >>

\* line 128, second operand
SpawnCloexecWrite ==
    /\ pc = "spawn_cloexec_wr"
    /\ \E ok \in BOOLEAN :
          LET res == set_cloexec("wr", ok)
          IN  /\ pcx' = res.cx
              /\ IF res.ok
                 THEN pc' = "spawn_close_wr" /\ UNCHANGED << ret, failedAt >>
                 ELSE SpawnFailed("cloexec")
    /\ UNCHANGED << app_ret, pid, sources, pfd, rdCloses, child, pendingSig,
                    credVars, server, loopVars, spawned, reapCalls >>

\* the parent keeping its write end
SpawnCloseWrite_kept ==
    /\ pc = "spawn_close_wr"
    /\ pc' = "spawn_add_fd"
    /\ UNCHANGED << locals, sources, pipes, child, pendingSig, credVars, server,
                    loopVars, failedAt, spawned, reapCalls >>

\* line 133: close(fd[1])
SpawnCloseWrite ==
    /\ pc = "spawn_close_wr"
    /\ pfd' = [pfd EXCEPT !.wr = "closed"]
    /\ pc' = "spawn_add_fd"
    /\ UNCHANGED << locals, sources, pcx, rdCloses, child, pendingSig,
                    credVars, server, loopVars, failedAt, spawned, reapCalls >>

\* lines 135-140: wl_event_loop_add_fd gives a source or NULL; return true
SpawnAddFd ==
    /\ pc = "spawn_add_fd"
    /\ sigchld_source' \in {"NULL", "armed"}
    /\ srcfd' = (IF sigchld_source' = "armed" THEN "open" ELSE "none")
    /\ spawned' = TRUE
    /\ pc' = "display_run"
    /\ UNCHANGED << locals, sigint_source, sigterm_source, pipes, child,
                    pendingSig, credVars, server, loopVars, failedAt, reapCalls >>


(***************************************************************************)
(* The event loop and its callbacks.  A callback works on the part of the  *)
(* state the callbacks can touch: [run, return_app_code, rd, closes,       *)
(* reaps, trace]; trace lists the steps the callbacks took.                *)
(***************************************************************************)
\* sigchld_handler reaping the child itself
sigchld_handler_reaps(s) ==
    [s EXCEPT !.rd = "closed", !.closes = s.closes + 1,
              !.return_app_code = TRUE, !.run = FALSE,
              !.reaps = s.reaps + 1,
              !.trace = s.trace \o << "close", "return_app_code",
                                      "terminate" >>]

\* sigchld_handler asking for the end of the loop first
sigchld_handler_terminate_first(s) ==
    [s EXCEPT !.rd = "closed", !.closes = s.closes + 1,
              !.return_app_code = TRUE, !.run = FALSE,
              !.trace = s.trace \o << "terminate", "close",
                                      "return_app_code" >>]

\* sigchld_handler, lines 62-79: close(fd); return_app_code = true;
\* wl_display_terminate()
sigchld_handler(s) ==
    [s EXCEPT !.rd = "closed", !.closes = s.closes + 1,
              !.return_app_code = TRUE, !.run = FALSE,
              !.trace = s.trace \o << "close", "return_app_code",
                                      "terminate" >>]

\* handle_signal taking the exit-code decision back
handle_signal_resets(signal, s) ==
    IF signal \in {SIGINT, SIGTERM}
    THEN [s EXCEPT !.run = FALSE, !.return_app_code = FALSE,
                   !.trace = Append(s.trace, "signal_terminate")]
    ELSE s

\* handle_signal stopping the loop on any signal number
handle_signal_any(signal, s) ==
    [s EXCEPT !.run = FALSE, !.trace = Append(s.trace, "signal_terminate")]

\* handle_signal, lines 187-201: wl_display_terminate() on SIGINT, SIGTERM
handle_signal(signal, s) ==
    IF signal \in {SIGINT, SIGTERM}
    THEN [s EXCEPT !.run = FALSE,
                   !.trace = Append(s.trace, "signal_terminate")]
    ELSE s

\* the events a dispatch can deliver
HupEvent == [src |-> "fd", sig |-> 0]
SigEvent(sig) == [src |-> "signal", sig |-> sig]

\* the callback registered for the event's source
Handle(e, s) ==
    IF e.src = "fd" THEN sigchld_handler(s) ELSE handle_signal(e.sig, s)

RECURSIVE Dispatch(_, _)
\* wl_event_loop_dispatch: every event of the batch gets its callback, in
\* the order epoll gave them, whatever the callbacks before it did
Dispatch(order, s) ==
    IF order = << >> THEN s
    ELSE Dispatch(Tail(order), Handle(Head(order), s))

\* the read end reports hangup once no write end is open any more
HangupReady ==
    /\ sigchld_source = "armed"
    /\ pfd.wr # "open"
    /\ cfd.wr # "open"
    /\ gwr # "open"

SourceOf(sig) == IF sig = SIGINT THEN sigint_source ELSE sigterm_source

\* the sources that are ready
Ready ==
    {SigEvent(sig) : sig \in {x \in pendingSig : SourceOf(x) = "armed"}}
        \cup (IF HangupReady THEN {HupEvent} ELSE {})

\* the orders in which a batch of events can be delivered
Orders(batch) ==
    {f \in [1 .. Cardinality(batch) -> batch] :
        \A i, j \in 1 .. Cardinality(batch) : f[i] = f[j] => i = j}

\* line 317-322: warp the cursor, enter wl_display_run
DisplayRun ==
    /\ pc = "display_run"
    /\ run' = TRUE
    /\ loopRan' = TRUE
    /\ pc' = "loop"
    /\ UNCHANGED << locals, sources, pipes, child, pendingSig, credVars, server,
                    return_app_code, dispatched, sigBeforeExit, trace,
                    failedAt, spawned, reapCalls >>

\* wl_display_run: while (run) dispatch; one round of it
LoopDispatch ==
    /\ pc = "loop"
    /\ run
    /\ \E batch \in (SUBSET Ready) \ {{}} :
       \E order \in Orders(batch) :
          LET s == Dispatch(order, [run |-> run,
                                    return_app_code |-> return_app_code,
                                    rd |-> pfd.rd, closes |-> rdCloses,
                                    reaps |-> reapCalls, trace |-> trace])
          IN  /\ run' = s.run
              /\ return_app_code' = s.return_app_code
              /\ pfd' = [pfd EXCEPT !.rd = s.rd]
              /\ rdCloses' = s.closes
              /\ reapCalls' = s.reaps
              /\ trace' = s.trace
              /\ pendingSig' = pendingSig \ {e.sig : e \in batch}
              /\ dispatched' = dispatched \o order
              /\ sigBeforeExit' =
                    (sigBeforeExit
                        \/ (cstatus = -1 /\ \E e \in batch : e.src = "signal"))
              /\ pc' = IF s.run THEN "loop" ELSE "destroy_clients"
    /\ UNCHANGED << locals, sources, pcx, child, credVars, server, loopRan,
                    failedAt, spawned >>

\* the collaborator torn down as soon as the loop has stopped
DestroyClients_term ==
    /\ pc = "destroy_clients"
    /\ clientsDestroyed' = clientsDestroyed + 1
    /\ destroyed' = [r \in Resources |-> destroyed[r] + 1]
    /\ pc' = "end"
    /\ UNCHANGED << locals, sources, pipes, child, pendingSig, credVars,
                    created, cfgVars, loopVars, failedAt, spawned, reapCalls >>

\* line 328: wl_display_destroy_clients
DestroyClients ==
    /\ pc = "destroy_clients"
    /\ clientsDestroyed' = clientsDestroyed + 1
    /\ pc' = "end"
    /\ UNCHANGED << locals, sources, pipes, child, pendingSig, credVars,
                    created, destroyed, cfgVars, loopVars, failedAt, spawned,
                    reapCalls >>

(***************************************************************************)
(* The end: label of main.                                                 *)
(***************************************************************************)
\* the reap not waiting for the child
CleanupChild_nohang ==
    /\ pc = "end"
    /\ pid = ChildPid
    /\ cpc' = (IF cpc = "exited" THEN "reaped" ELSE cpc)
    /\ reapCalls' = reapCalls + 1
    /\ app_ret' = cleanup_primary_client(cstatus)
    /\ ret' = main_ret(ret, return_app_code, app_ret')
    /\ pc' = "remove_sources"
    /\ UNCHANGED << pid, sources, pipes, cfd, ccx, cstatus, gwr, execResult,
                    pendingSig, credVars, server, loopVars, failedAt, spawned >>

\* lines 331-334 with a child recorded: waitpid blocks until it has exited
CleanupChild ==
    /\ pc = "end"
    /\ pid = ChildPid
    /\ cpc = "exited"
    /\ cpc' = "reaped"
    /\ reapCalls' = reapCalls + 1
    /\ app_ret' = cleanup_primary_client(cstatus)
    /\ ret' = main_ret(ret, return_app_code, app_ret')
    /\ pc' = "remove_sources"
    /\ UNCHANGED << pid, sources, pipes, cfd, ccx, cstatus, gwr, execResult,
                    pendingSig, credVars, server, loopVars, failedAt, spawned >>

\* lines 331-334 with pid 0: waitpid(0, ...) finds no child and leaves
\* status unwritten; the translation reads it all the same
CleanupNoChild ==
    /\ pc = "end"
    /\ pid = 0
    /\ reapCalls' = reapCalls + 1
    /\ \E status \in UninitStatuses :
          app_ret' = cleanup_primary_client(status)
    /\ ret' = main_ret(ret, return_app_code, app_ret')
    /\ pc' = "remove_sources"
    /\ UNCHANGED << pid, sources, pipes, child, pendingSig, credVars, server,
                    loopVars, failedAt, spawned >>

\* lines 336-340: wl_event_source_remove reads through its argument, so a
\* NULL signal source ends the process there; removing the death source
\* closes the descriptor the source holds
RemoveSources ==
    /\ pc = "remove_sources"
    /\ IF sigint_source = "NULL" \/ sigterm_source = "NULL"
       THEN /\ pc' = "crashed"
            /\ sigint_source' =
                  (IF sigint_source = "NULL" THEN "NULL" ELSE "removed")
            /\ UNCHANGED << sigterm_source, sigchld_source, srcfd >>
       ELSE /\ pc' = "server_term"
            /\ sigint_source' = "removed"
            /\ sigterm_source' = "removed"
            /\ sigchld_source' =
                  (IF sigchld_source = "NULL" THEN "NULL" ELSE "removed")
            /\ srcfd' = (IF sigchld_source = "NULL" THEN srcfd ELSE "closed")
    /\ UNCHANGED << locals, pipes, child, pendingSig, credVars, server,
                    loopVars, failedAt, spawned, reapCalls >>

\* server_term, lines 292-307
server_term(d) ==
    [r \in Resources |-> d[r] + 1]

\* lines 342-343; server_term starts with wl_display_destroy_clients
ServerTerm ==
    /\ pc = "server_term"
    /\ clientsDestroyed' = clientsDestroyed + 1
    /\ destroyed' = server_term(destroyed)
    /\ pc' = "done"
    /\ UNCHANGED << locals, sources, pipes, child, pendingSig, credVars,
                    created, cfgVars, loopVars, failedAt, spawned, reapCalls >>

(***************************************************************************)
(* The child, from fork() on.                                              *)
(***************************************************************************)
\* lines 111-113: the signal mask is emptied
ChildSigmask ==
    /\ cpc = "sigmask"
    /\ cpc' = "close_rd"
    /\ UNCHANGED << pc, locals, sources, pipes, cfd, ccx, cstatus, gwr,
                    execResult, pendingSig, credVars, server, loopVars,
                    failedAt, spawned, reapCalls >>

\* line 115: close(fd[0])
ChildCloseRead ==
    /\ cpc = "close_rd"
    /\ cfd' = [cfd EXCEPT !.rd = "closed"]
    /\ cpc' = "execvp"
    /\ UNCHANGED << pc, locals, sources, pipes, ccx, cstatus, gwr, execResult,
                    pendingSig, credVars, server, loopVars, failedAt, spawned,
                    reapCalls >>

\* what a successful exec does to a descriptor: closed if it carries
\* FD_CLOEXEC, kept otherwise
exec_fd(state, cloexec) ==
    IF cloexec /\ state = "open" THEN "closed" ELSE state

\* line 116: execvp replaces the image, closing the descriptors that carry
\* FD_CLOEXEC, or returns
ChildExecvp ==
    /\ cpc = "execvp"
    /\ \/ /\ cpc' = "running"
          /\ execResult' = "ok"
          /\ cfd' = [e \in {"rd", "wr"} |-> exec_fd(cfd[e], ccx[e])]
       \/ /\ cpc' = "exec_failed"
          /\ execResult' = "failed"
          /\ cfd' = cfd
    /\ UNCHANGED << pc, locals, sources, pipes, ccx, cstatus, gwr, pendingSig,
                    credVars, server, loopVars, failedAt, spawned, reapCalls >>

\* the end of the child: the kernel closes its descriptors
ChildEnds(status) ==
    /\ cpc' = "exited"
    /\ cstatus' = status
    /\ cfd' = [rd |-> "closed", wr |-> "closed"]
    /\ UNCHANGED << ccx, gwr, execResult >>

\* the child leaving with status 0 when execvp failed
ChildExecFailed_exit0 ==
    /\ cpc = "exec_failed"
    /\ ChildEnds(W_EXITCODE(0))
    /\ UNCHANGED << pc, locals, sources, pipes, pendingSig, credVars, server,
                    loopVars, failedAt, spawned, reapCalls >>

\* lines 118-119: _exit(1)
ChildExecFailed ==
    /\ cpc = "exec_failed"
    /\ ChildEnds(W_EXITCODE(1))
    /\ UNCHANGED << pc, locals, sources, pipes, pendingSig, credVars, server,
                    loopVars, failedAt, spawned, reapCalls >>

\* the client exits with a status of its own
ChildExits ==
    /\ cpc = "running"
    /\ \E n \in ExitStatuses : ChildEnds(W_EXITCODE(n))
    /\ UNCHANGED << pc, locals, sources, pipes, pendingSig, credVars, server,
                    loopVars, failedAt, spawned, reapCalls >>

\* the client closes the descriptor it inherited while it goes on running
ClientClosesWrite ==
    /\ cpc = "running"
    /\ cfd.wr = "open"
    /\ cfd' = [cfd EXCEPT !.wr = "closed"]
    /\ UNCHANGED << pc, locals, sources, pipes, cpc, ccx, cstatus, gwr,
                    execResult, pendingSig, credVars, server, loopVars,
                    failedAt, spawned, reapCalls >>

\* the client forks a process of its own, which inherits the write end
\* the client holds
ClientForks ==
    /\ cpc = "running"
    /\ cfd.wr = "open"
    /\ gwr = "none"
    /\ gwr' = "open"
    /\ UNCHANGED << pc, locals, sources, pipes, cpc, cfd, ccx, cstatus,
                    execResult, pendingSig, credVars, server, loopVars,
                    failedAt, spawned, reapCalls >>

\* that process closes the write end, or ends
GrandchildCloses ==
    /\ gwr = "open"
    /\ gwr' = "closed"
    /\ UNCHANGED << pc, locals, sources, pipes, cpc, cfd, ccx, cstatus,
                    execResult, pendingSig, credVars, server, loopVars,
                    failedAt, spawned, reapCalls >>

\* the child is killed by a signal, at any point of its life
ChildKilled ==
    /\ cpc \in {"sigmask", "close_rd", "execvp", "exec_failed", "running"}
    /\ \E s \in ChildSignals, core \in BOOLEAN : ChildEnds(W_SIGNALED(s, core))
    /\ UNCHANGED << pc, locals, sources, pipes, pendingSig, credVars, server,
                    loopVars, failedAt, spawned, reapCalls >>

(***************************************************************************)
(* The operator.                                                           *)
(***************************************************************************)
\* SIGINT or SIGTERM is sent to the supervisor and queued on its source
OperatorSignal ==
    /\ pc \notin {"done", "crashed"}
    /\ \E sig \in {SIGINT, SIGTERM} :
          /\ SourceOf(sig) = "armed"
          /\ sig \notin pendingSig
          /\ pendingSig' = pendingSig \cup {sig}
    /\ UNCHANGED << pc, locals, sources, pipes, child, credVars, server,
                    loopVars, failedAt, spawned, reapCalls >>

Next ==
    \/ ParseArgs \/ CheckEnv \/ DropPermissions \/ ServerInit \/ AddSignals
    \/ SpawnPipe \/ SpawnFork \/ SpawnCloexecRead \/ SpawnCloexecWrite
    \/ SpawnCloseWrite \/ SpawnAddFd
    \/ DisplayRun \/ LoopDispatch \/ DestroyClients
    \/ CleanupChild \/ CleanupNoChild \/ RemoveSources \/ ServerTerm
    \/ ChildSigmask \/ ChildCloseRead \/ ChildExecvp \/ ChildExecFailed
    \/ ChildExits \/ ChildKilled \/ ClientClosesWrite
    \/ ClientForks \/ GrandchildCloses
    \/ OperatorSignal

Spec == Init /\ [][Next]_vars

\* the steps of the supervisor itself, main from its first line to its last
Supervisor ==
    \/ ParseArgs \/ CheckEnv \/ DropPermissions \/ ServerInit \/ AddSignals
    \/ SpawnPipe \/ SpawnFork \/ SpawnCloexecRead \/ SpawnCloexecWrite
    \/ SpawnCloseWrite \/ SpawnAddFd
    \/ DisplayRun \/ LoopDispatch \/ DestroyClients
    \/ CleanupChild \/ CleanupNoChild \/ RemoveSources \/ ServerTerm

\* the supervisor is a running process: a step it can take it takes, and
\* the loop dispatches what is ready; nothing is assumed of the child, of
\* the processes the client forks or of the operator
FairSpec == Spec /\ WF_vars(Supervisor)

(***************************************************************************)
(* handle_signal on its own: called with any signal number, from the       *)
(* states a callback of the loop can find.                                 *)
(***************************************************************************)
\* the signal numbers handle_signal is called with
MaxSignal == 16
\* the calls made in a row
MaxCalls == 2

\* the loop is running after a successful spawn; the callback is the first
\* of its batch, or comes after sigchld_handler in the same batch
InitSignal ==
    /\ CfgIdle
    /\ pc = "loop"
    /\ ret = 0 /\ app_ret = 0 /\ pid = ChildPid
    /\ sigint_source = "armed" /\ sigterm_source = "armed"
    /\ sigchld_source = "armed" /\ srcfd = "open"
    /\ pcx = [rd |-> TRUE, wr |-> TRUE]
    /\ ccx = [rd |-> FALSE, wr |-> FALSE]
    /\ gwr = "none"
    /\ execResult = "ok"
    /\ pendingSig = {}
    /\ creds = [ruid |-> 1, euid |-> 1, suid |-> 1,
                rgid |-> 1, egid |-> 1, sgid |-> 1]
    /\ creds0 = creds
    /\ dropFail = "none"
    /\ guard = "allowed"
    /\ created = Resources
    /\ destroyed = [r \in Resources |-> 0]
    /\ clientsDestroyed = 0
    /\ failedAt = "none"
    /\ spawned = TRUE
    /\ loopRan = TRUE
    /\ sigBeforeExit = FALSE
    /\ \E hup \in BOOLEAN :
          LET s0 == [run |-> TRUE, return_app_code |-> FALSE, rd |-> "open",
                     closes |-> 0, reaps |-> 0, trace |-> << >>]
              s == IF hup THEN sigchld_handler(s0) ELSE s0
          IN  /\ run = s.run
              /\ return_app_code = s.return_app_code
              /\ pfd = [rd |-> s.rd, wr |-> "closed"]
              /\ rdCloses = s.closes
              /\ reapCalls = s.reaps
              /\ trace = s.trace
              /\ dispatched = (IF hup THEN << HupEvent >> ELSE << >>)
              /\ cpc = (IF hup THEN "exited" ELSE "running")
              /\ cstatus = (IF hup THEN W_EXITCODE(0) ELSE -1)
              /\ cfd = [rd |-> "closed",
                        wr |-> IF hup THEN "closed" ELSE "open"]

\* one call of handle_signal, lines 187-201, with the signal number the
\* loop passes
HandleSignalCall ==
    /\ Len(dispatched) < MaxCalls
    /\ \E signal \in 1 .. MaxSignal :
          LET s == handle_signal(signal,
                                 [run |-> run,
                                  return_app_code |-> return_app_code,
                                  rd |-> pfd.rd, closes |-> rdCloses,
                                  reaps |-> reapCalls, trace |-> trace])
          IN  /\ run' = s.run
              /\ return_app_code' = s.return_app_code
              /\ pfd' = [pfd EXCEPT !.rd = s.rd]
              /\ rdCloses' = s.closes
              /\ reapCalls' = s.reaps
              /\ trace' = s.trace
              /\ dispatched' = Append(dispatched, SigEvent(signal))
    /\ UNCHANGED << pc, locals, sources, pcx, child, pendingSig, credVars,
                    server, loopRan, sigBeforeExit, failedAt, spawned >>

SpecSignal == InitSignal /\ [][HandleSignalCall]_vars

(***************************************************************************)
(* cfg.c: parse_config_file on its own, over the directives a file can     *)
(* hold.                                                                   *)
(***************************************************************************)
\* the directives of a file
MaxDirectives == 2
\* the parameters of a directive
MaxParams == 2

DirectiveNames == {"multi-output", "other"}
ParamWords == {"last", "extend", "bogus"}

ParamLists == UNION {[1 .. n -> ParamWords] : n \in 0 .. MaxParams}
Directive == [name : DirectiveNames, params : ParamLists]
Blocks == UNION {[1 .. n -> Directive] : n \in 0 .. MaxDirectives}

\* strcmp: 0 for equal strings, non-zero otherwise
strcmp(a, b) == IF a = b THEN 0 ELSE 1

\* parse_multi_output, lines 6-23: NULL (false) unless params_len is 1;
\* otherwise the mode for "last" or "extend", and true
parse_multi_output(dir, mode) ==
    IF Len(dir.params) # 1
    THEN [ret |-> FALSE, output_mode |-> mode]
    ELSE [ret |-> TRUE,
          output_mode |->
             IF strcmp(dir.params[1], "last") = 0 THEN "LAST"
             ELSE IF strcmp(dir.params[1], "extend") = 0 THEN "EXTEND"
             ELSE mode]

\* parse_config_file is entered, with the mode parse_args may have left
InitCfg ==
    /\ MainInit
    /\ creds = [ruid |-> 1, euid |-> 1, suid |-> 1,
                rgid |-> 1, egid |-> 1, sgid |-> 1]
    /\ output_mode \in {"EXTEND", "LAST"}
    /\ directives \in Blocks
    /\ cfg_pc = "load"
    /\ cfg_i = 0
    /\ cfg_ret = "none"
    /\ handled = << >>

\* lines 26-30: scfg_load_file fails, return false, or gives the block
CfgLoad ==
    /\ cfg_pc = "load"
    /\ \/ cfg_pc' = "done" /\ cfg_ret' = "false"
       \/ cfg_pc' = "loop" /\ cfg_ret' = cfg_ret
    /\ UNCHANGED << pc, locals, sources, pipes, child, pendingSig, credVars,
                    created, destroyed, clientsDestroyed, loopVars, failedAt,
                    spawned, reapCalls, output_mode, directives, cfg_i,
                    handled >>

\* lines 32-41, one round of the loop: the fprintf reads params[0], which
\* is a read through NULL for a directive without parameters (the process
\* dies there, or the read gives something and the round goes on); then the
\* handler is called if strcmp(name, "multi-output") is non-zero
CfgDirective ==
    /\ cfg_pc = "loop"
    /\ cfg_i < Len(directives)
    /\ LET dir == directives[cfg_i + 1]
           res == parse_multi_output(dir, output_mode)
       IN  \/ /\ Len(dir.params) = 0
              /\ cfg_pc' = "crashed"
              /\ UNCHANGED << output_mode, cfg_i, handled >>
           \/ /\ cfg_pc' = cfg_pc
              /\ cfg_i' = cfg_i + 1
              /\ IF strcmp(dir.name, "multi-output") # 0
                 THEN /\ output_mode' = res.output_mode
                      /\ handled' = Append(handled,
                                           [i |-> cfg_i + 1, ret |-> res.ret,
                                            before |-> output_mode,
                                            after |-> res.output_mode])
                 ELSE UNCHANGED << output_mode, handled >>
    /\ UNCHANGED << pc, locals, sources, pipes, child, pendingSig, credVars,
                    created, destroyed, clientsDestroyed, loopVars, failedAt,
                    spawned, reapCalls, directives, cfg_ret >>

\* lines 43-44: scfg_block_finish, return true
CfgFinish ==
    /\ cfg_pc = "loop"
    /\ cfg_i = Len(directives)
    /\ cfg_pc' = "done"
    /\ cfg_ret' = "true"
    /\ UNCHANGED << pc, locals, sources, pipes, child, pendingSig, credVars,
                    created, destroyed, clientsDestroyed, loopVars, failedAt,
                    spawned, reapCalls, output_mode, directives, cfg_i,
                    handled >>

NextCfg == CfgLoad \/ CfgDirective \/ CfgFinish

SpecCfg == InitCfg /\ [][NextCfg]_vars


(***************************************************************************)
(* Properties.                                                             *)
(***************************************************************************)
Range(seq) == {seq[i] : i \in 1 .. Len(seq)}

\* code is the shell-style translation of the child's wait status
IsTranslated(code) ==
    /\ cstatus # -1
    /\ \A n \in ExitStatuses : cstatus = W_EXITCODE(n) => code = n
    /\ \A s \in ChildSignals, core \in BOOLEAN :
          cstatus = W_SIGNALED(s, core) => code = 128 + s

ChildExitedNormally == \E n \in ExitStatuses : cstatus = W_EXITCODE(n)
ChildDiedFromSignal ==
    \E s \in ChildSignals, core \in BOOLEAN : cstatus = W_SIGNALED(s, core)

\* C1 as stated: whenever the spawn succeeded and the child exited normally
\* with status N, main returns N.
C1_AsStated ==
    (pc = "done" /\ spawned /\ ChildExitedNormally) => IsTranslated(ret)

\* C1, amended: when the spawn succeeded, the death-pipe callback ran
\* (return_app_code is set) and the child exited normally with status N,
\* main returns N.
C1_ExitCodeOfNormalExit ==
    (pc = "done" /\ spawned /\ return_app_code /\ ChildExitedNormally)
        => IsTranslated(ret)

C1_Witness ==
    /\ pc = "done" /\ spawned /\ return_app_code
    /\ cstatus = W_EXITCODE(255) /\ ret = 255

\* C2 as stated: whenever the spawn succeeded and the child was killed by
\* signal S, main returns 128 + S.
C2_AsStated ==
    (pc = "done" /\ spawned /\ ChildDiedFromSignal) => IsTranslated(ret)

\* C2, amended: when the spawn succeeded, the death-pipe callback ran
\* (return_app_code is set) and the child was killed by signal S, main
\* returns 128 + S.
C2_ExitCodeOfSignalDeath ==
    (pc = "done" /\ spawned /\ return_app_code /\ ChildDiedFromSignal)
        => IsTranslated(ret)

C2_Witness ==
    /\ pc = "done" /\ spawned /\ return_app_code
    /\ cstatus = W_SIGNALED(SIGTERM, TRUE) /\ ret = 128 + SIGTERM

\* C3 as stated: when SIGINT/SIGTERM was handled before the child exited,
\* main still returns the translated status of the child.
C3_AsStated ==
    (pc = "done" /\ sigBeforeExit /\ HupEvent \notin Range(dispatched))
        => IsTranslated(ret)

\* C3, amended: when SIGINT/SIGTERM was handled before the child exited and
\* the death-pipe callback did not run (the loop stopped on the signal
\* alone), the flag is not set, the child is still reaped (once, its status
\* translated into app_ret), and main returns 0 whatever that status.
C3_SignalBeforeExitReturnsZero ==
    (pc = "done" /\ sigBeforeExit /\ HupEvent \notin Range(dispatched))
        => /\ ~return_app_code
           /\ reapCalls = 1
           /\ cpc = "reaped"
           /\ IsTranslated(app_ret)
           /\ ret = 0

C3_Witness ==
    /\ pc = "done" /\ sigBeforeExit /\ HupEvent \notin Range(dispatched)
    /\ cstatus = W_EXITCODE(1) /\ app_ret = 1 /\ ret = 0

\* the return statements main takes before a child can exist, and the
\* failures of spawn_primary_client
StartupFailures == {"parse_args", "getenv", "guard", "server_init"}
SpawnFailures == {"pipe", "fork", "cloexec"}

\* C4: at termination the exit code is the child's translated status when
\* return_app_code was set by the death-pipe callback; otherwise 0 when the
\* loop was stopped by an operator signal, and 1 when startup or the spawn
\* failed.
C4_ExitCodeRule ==
    pc = "done" =>
        /\ return_app_code => (HupEvent \in Range(dispatched) /\ IsTranslated(ret))
        /\ (~return_app_code /\ loopRan)
              => /\ \E sig \in {SIGINT, SIGTERM} : SigEvent(sig) \in Range(dispatched)
                 /\ ret = 0
        /\ failedAt \in (StartupFailures \cup SpawnFailures) => ret = 1
        /\ \/ return_app_code
           \/ loopRan
           \/ failedAt \in (StartupFailures \cup SpawnFailures)
           \/ failedAt = "version"

C4_Witness ==
    /\ pc = "done" /\ loopRan /\ ~return_app_code
    /\ cstatus = W_SIGNALED(SIGTERM, FALSE) /\ ret = 0

\* C5: once the death-pipe callback has run, the flag stays set whatever is
\* dispatched with it or after it (a SIGINT/SIGTERM before or after it in
\* the same dispatch included), and main returns the child's translated
\* status.
C5_PipeClosureDecides ==
    HupEvent \in Range(dispatched)
        => /\ return_app_code
           /\ pc = "done" => IsTranslated(ret)

C5_Witness ==
    /\ pc = "done"
    /\ dispatched = << HupEvent, SigEvent(SIGTERM) >>
    /\ cstatus = W_EXITCODE(255) /\ ret = 255

\* the start the claim calls setuid-legacy: an effective id differs from
\* the real one, and one of the two is root
SetuidLegacy(c) ==
    \/ c.euid # c.ruid /\ (c.euid = 0 \/ c.ruid = 0)
    \/ c.egid # c.rgid /\ (c.egid = 0 \/ c.rgid = 0)

\* a normal unprivileged start: real = effective, no root id anywhere
NormalStart(c) ==
    /\ c.ruid = c.euid /\ c.rgid = c.egid
    /\ c.ruid # 0 /\ c.rgid # 0 /\ c.suid # 0 /\ c.sgid # 0

\* C6 as stated: every setuid-legacy start is denied by drop_permissions.
C6_AsStated ==
    (guard # "pending" /\ SetuidLegacy(creds0)) => guard = "denied"

\* C6, amended: drop_permissions denies exactly when the real uid and gid
\* are both non-root and either a privilege-dropping call fails or root can
\* be regained afterwards (a set-gid-root start under a non-root effective
\* uid); a setuid-root start is allowed after its effective ids were set to
\* the real ones, and a start with a real root id is allowed unchanged.
\* After a denial main returns 1 with no pipe and no child; a normal
\* unprivileged start is always allowed.
C6_PrivilegeGuard ==
    guard # "pending" =>
        /\ guard = "denied" <=>
              /\ creds0.ruid # 0 /\ creds0.rgid # 0
              /\ \/ dropFail # "none"
                 \/ creds0.egid = 0 /\ creds0.euid # 0
        /\ guard = "denied" =>
              /\ pc = "done" /\ ret = 1
              /\ pfd = [rd |-> "none", wr |-> "none"]
              /\ cpc = "none" /\ pid = 0
        /\ (guard = "allowed" /\ creds0.ruid # 0 /\ creds0.rgid # 0)
              => /\ creds.euid = creds.ruid /\ creds.egid = creds.rgid
                 /\ creds.ruid = creds0.ruid /\ creds.rgid = creds0.rgid
        /\ (creds0.ruid = 0 \/ creds0.rgid = 0)
              => (guard = "allowed" /\ creds = creds0)
        /\ NormalStart(creds0) => guard = "allowed"

C6_Witness ==
    /\ guard = "allowed"
    /\ creds0.euid = 0 /\ creds0.ruid # 0 /\ creds0.rgid # 0
    /\ creds.euid = creds0.ruid
    /\ cpc = "running"

\* C7: after a privilege-guard denial, a server_init failure or a pipe()
\* failure no child exists, the event loop is never run, and main returns a
\* non-zero code.
C7_StartupFatal ==
    failedAt \in {"guard", "server_init", "pipe"}
        => /\ cpc = "none" /\ pid = 0
           /\ ~loopRan /\ ~run /\ dispatched = << >>
           /\ pc = "done" => ret # 0

C7_Witness ==
    /\ pc = "done" /\ failedAt = "pipe" /\ ret = 1

C9_ReapOnceAfterLoop ==
    /\ reapCalls <= 1
    /\ reapCalls > 0
          => /\ ~run
             /\ pc \in {"remove_sources", "server_term", "done", "crashed"}
             /\ loopRan => dispatched # << >>
    /\ (pc \in {"done", "crashed"} /\ pid = ChildPid)
          => (reapCalls = 1 /\ cpc = "reaped")

C9_Witness ==
    /\ pc = "done" /\ pid = ChildPid /\ reapCalls = 1
    /\ dispatched = << SigEvent(SIGINT) >>

\* C10: after a successful spawn the parent's write end is closed and its
\* read end open (until the death-pipe callback closes it); the child holds
\* the write end open up to and at its execvp, and from the point where it
\* calls execvp its read end is closed.
C10_PipeEnds ==
    /\ spawned
          => /\ pfd.wr = "closed"
             /\ \/ pfd.rd = "open"
                \/ pfd.rd = "closed" /\ HupEvent \in Range(dispatched)
    /\ cpc \in {"sigmask", "close_rd", "execvp", "exec_failed"}
          => cfd.wr = "open"
    /\ cpc \in {"execvp", "exec_failed", "running"} => cfd.rd = "closed"

C10_Witness ==
    /\ spawned /\ pc = "loop" /\ cpc = "running"
    /\ pfd = [rd |-> "open", wr |-> "closed"]
    /\ cfd = [rd |-> "closed", wr |-> "open"]

\* C11 as stated: both ends of the death pipe carry close-on-exec when
\* fork() is called, and no process forked by the client holds the write
\* end open once the child has died.
C11_AsStated ==
    /\ pc = "spawn_fork" => (pcx.rd /\ pcx.wr)
    /\ cstatus # -1 => gwr # "open"

\* C11, amended: neither end carries close-on-exec when fork() is called;
\* the child's copies never carry it, the parent's two descriptors carry it
\* once the spawn has succeeded; and while a process forked by the client
\* holds the write end open the death-pipe callback has not run.
C11_CloexecAfterFork ==
    /\ pc = "spawn_fork" => (~pcx.rd /\ ~pcx.wr)
    /\ cpc # "none" => (~ccx.rd /\ ~ccx.wr)
    /\ spawned => (pcx.rd /\ pcx.wr)
    /\ gwr = "open" => HupEvent \notin Range(dispatched)

C11_Witness ==
    /\ pc = "loop" /\ spawned /\ sigchld_source = "armed"
    /\ pcx.rd /\ pcx.wr /\ ~ccx.wr
    /\ cstatus # -1 /\ gwr = "open"

\* C12 as stated: when execvp failed in the child, the child ends with
\* status 1 and never runs the client, and a session that ends returns a
\* non-zero exit code.
C12_AsStated ==
    /\ execResult = "failed" => cpc \in {"exec_failed", "exited", "reaped"}
    /\ (execResult = "failed" /\ cstatus # -1 /\ ~ChildDiedFromSignal)
          => cstatus = W_EXITCODE(1)
    /\ (execResult = "failed" /\ pc = "done") => ret # 0

\* C12, amended: when execvp failed in the child, the child never runs the
\* client nor forks, and ends with status 1 unless a signal kills it first;
\* a session that ends after the death-pipe callback ran returns 1 (128 + s
\* had signal s killed the child), one that ends without it returns 0 when
\* the spawn had succeeded (an operator signal stopped the loop) and 1 when
\* it had not.
C12_ExecFailure ==
    /\ execResult = "failed"
          => /\ cpc \in {"exec_failed", "exited", "reaped"}
             /\ gwr = "none"
    /\ (execResult = "failed" /\ cstatus # -1 /\ ~ChildDiedFromSignal)
          => cstatus = W_EXITCODE(1)
    /\ (execResult = "failed" /\ pc = "done" /\ return_app_code)
          => /\ IsTranslated(ret)
             /\ cstatus = W_EXITCODE(1) => ret = 1
    /\ (execResult = "failed" /\ pc = "done" /\ ~return_app_code)
          => ret = (IF spawned THEN 0 ELSE 1)

C12_Witness ==
    /\ execResult = "failed" /\ cstatus = W_EXITCODE(1)
    /\ pc = "done" /\ return_app_code /\ ret = 1

\* C13 as stated: after a successful spawn, once the child has exited while
\* the loop runs (and no other process holds the write end), the loop stops
\* and the supervisor reaches its end, whether or not arming the read end
\* yielded a registration.
C13_AsStated ==
    (spawned /\ pc = "loop" /\ cstatus # -1 /\ gwr # "open")
        ~> (pc \in {"done", "crashed"})

\* C14 as stated: removing the SIGINT and SIGTERM registrations at shutdown
\* never crashes, a registration that was never obtained (NULL) included,
\* and once teardown is past the removals no registration is left armed.
C14_AsStated ==
    /\ pc # "crashed"
    /\ pc \in {"server_term", "done"}
          => (sigint_source # "armed" /\ sigterm_source # "armed")

\* C15: whenever spawn_primary_client reported failure the event loop is
\* never run and main, when it returns, returns 1; a failure of pipe() or
\* fork() leaves no child and no pid, a failure of set_cloexec comes after
\* the fork with the child's pid recorded, and the shutdown path then reaps
\* that child, once, before it goes on.
C15_SpawnFailure ==
    /\ failedAt \in SpawnFailures
          => /\ ~spawned /\ ~loopRan /\ ~run /\ dispatched = << >>
             /\ ret = 1
             /\ pc \in {"end", "remove_sources", "server_term", "done",
                         "crashed"}
    /\ failedAt \in {"pipe", "fork"} => (pid = 0 /\ cpc = "none")
    /\ failedAt = "cloexec"
          => /\ pid = ChildPid /\ cpc # "none"
             /\ pc = "end" => reapCalls = 0
             /\ pc \in {"remove_sources", "server_term", "done", "crashed"}
                   => (reapCalls = 1 /\ cpc = "reaped"
                          /\ app_ret = cleanup_primary_client(cstatus))

C15_Witness ==
    /\ failedAt = "cloexec" /\ pc = "done" /\ ret = 1
    /\ pid = ChildPid /\ cpc = "reaped" /\ reapCalls = 1

\* C16: once a child was forked the supervisor is never past the reap, let
\* alone returned from main, while that child is alive: after a signal has
\* stopped the loop it stays at the reap until the child has exited; and no
\* step of the supervisor ends the child (the step on which the child dies
\* leaves the supervisor where it was).
C16_WaitsForChild ==
    /\ [](pid = ChildPid /\ cstatus = -1
            => pc \notin {"remove_sources", "server_term", "done", "crashed"})
    /\ [](pid = ChildPid /\ pc \in {"remove_sources", "server_term", "done",
                                      "crashed"}
            => cpc = "reaped")
    /\ [][(cstatus = -1 /\ cstatus' # -1)
            => /\ pc' = pc
               /\ UNCHANGED << locals, sources, pipes, loopVars, pendingSig >>]_vars

C16_Witness ==
    /\ pc = "end" /\ pid = ChildPid /\ loopRan /\ ~run
    /\ cpc = "running" /\ cstatus = -1
    /\ dispatched = << SigEvent(SIGTERM) >>

\* C17: a call of handle_signal with SIGINT or SIGTERM stops the loop and
\* leaves the recorded pid, return_app_code, the pipe descriptors and the
\* exit code as they were; a call with any other signal number changes
\* nothing, the loop keeps the state it had.
C17_SignalOnlyStopsLoop ==
    [][\A signal \in 1 .. MaxSignal :
          dispatched' = Append(dispatched, SigEvent(signal))
             => /\ UNCHANGED << pid, return_app_code, pfd, pcx, rdCloses, srcfd,
                                ret, app_ret, reapCalls >>
                /\ signal \in {SIGINT, SIGTERM} => ~run'
                /\ signal \notin {SIGINT, SIGTERM}
                      => (run' = run /\ trace' = trace)]_vars

C17_Witness ==
    /\ dispatched = << SigEvent(1), SigEvent(SIGINT) >>
    /\ trace = << "signal_terminate" >>
    /\ ~run /\ ~return_app_code /\ pfd.rd = "open"

C19_CallbackOnce ==
    /\ Cardinality({i \in 1 .. Len(dispatched) : dispatched[i] = HupEvent}) <= 1
    /\ rdCloses <= 1
    /\ rdCloses = 1 <=> HupEvent \in Range(dispatched)
    /\ pfd.rd = "closed" <=> rdCloses = 1
    /\ srcfd = "closed"
          => (sigchld_source = "removed" /\ pc \in {"server_term", "done"})
    /\ \A i \in 1 .. Len(trace) :
          trace[i] = "terminate"
             => /\ i >= 3
                /\ trace[i - 2] = "close"
                /\ trace[i - 1] = "return_app_code"
    /\ HupEvent \in Range(dispatched) => "terminate" \in Range(trace)

C19_Witness ==
    /\ pc = "done"
    /\ trace = << "close", "return_app_code", "terminate" >>
    /\ rdCloses = 1 /\ pfd.rd = "closed" /\ srcfd = "closed"

\* C20 as stated: whenever main returns after pipe() succeeded, the parent
\* holds no open death-pipe descriptor: its read end and its write end are
\* closed, and so is the descriptor the death source held.
C20_AsStated ==
    (pc = "done" /\ pfd.rd # "none")
        => (pfd.rd = "closed" /\ pfd.wr = "closed" /\ srcfd # "open")

\* C21 as stated: whenever server_init has returned false, every resource
\* it had created up to the failing step (display, backend, output layout,
\* seat) has been destroyed exactly once, and nothing else was destroyed.
C21_AsStated ==
    failedAt = "server_init"
        => \A r \in Resources :
              destroyed[r] = (IF r \in created THEN 1 ELSE 0)

\* C22 as stated: of the directives parse_config_file has gone through, the
\* multi-output handler was applied to exactly those named "multi-output";
\* and an application of the handler set output_mode to LAST for the single
\* parameter "last", to EXTEND for the single parameter "extend", and left
\* output_mode as it was and reported failure when the directive did not
\* have exactly one parameter.
C22_AsStated ==
    /\ \A i \in 1 .. cfg_i :
          (\E k \in 1 .. Len(handled) : handled[k].i = i)
             <=> directives[i].name = "multi-output"
    /\ \A k \in 1 .. Len(handled) :
          LET h == handled[k]
              d == directives[h.i]
          IN  /\ d.params = << "last" >> => (h.after = "LAST" /\ h.ret)
              /\ d.params = << "extend" >> => (h.after = "EXTEND" /\ h.ret)
              /\ Len(d.params) # 1 => (h.after = h.before /\ ~h.ret)

====
